---- MODULE Spec2Model ----
(***************************************************************************)
(* Waste-collection routing: the instance built by build_instance, the     *)
(* greedy construction heuristic build_greedy_solution, the warm start it  *)
(* offers, and the constraint set of the exact model of src/model.py.      *)
(*                                                                         *)
(* A run is sequential, as the script is: the instance is built, the       *)
(* heuristic runs vehicle by vehicle, the model is submitted, and the      *)
(* external solver holds some assignment (x, y, u).  The solver is a black *)
(* box: it is modelled as selecting arcs and usage flags one at a time, so *)
(* that every assignment that can satisfy the constraints is a reachable   *)
(* state; the constraints themselves are operators over an assignment and  *)
(* decide which of those states are solutions.                             *)
(***************************************************************************)
EXTENDS Integers, Sequences, FiniteSets

\* ------------------------------------------------------------------ bounds
PosDen == 2        \* coordinates are multiples of 1/PosDen
MaxPos == 3        \* a coordinate is p/PosDen with p in 0..MaxPos
MaxDemand == 2     \* customer demand in 1..MaxDemand
MaxCap == 2        \* vehicle capacity in 1..MaxCap
MaxService == 1    \* customer service time in 0..MaxService
TightShift == 2    \* the three shift lengths a vehicle may have
MidShift == 6
AmpleShift == 24
MaxArcs == 4       \* a synthetic arc selection has at most MaxArcs arcs
SmallSteps == 2    \* a max_steps below the route summary's |N| + 5

\* ------------------------------------------------------- program constants
cost_per_unit == 1
time_per_unit == 3

\* ---------------------------------------------------------------- entities
Fleet == <<"V1", "V2">>          \* the vehicles a run may have, in file order
Customers == <<"C1", "C2">>
depot == "D"
facility == "F"
\* N = D + C + F, in this order
NodeList == <<depot>> \o Customers \o <<facility>>
C == {Customers[n] : n \in 1..Len(Customers)}
N == {NodeList[n] : n \in 1..Len(NodeList)}
AllVehicles == {Fleet[n] : n \in 1..Len(Fleet)}

VARIABLES
    V,                             \* the vehicle list of the instance
    node_positions,                \* node -> coordinate on a line
    demand,                        \* node -> demand (0 for depot, facility)
    service,                       \* node -> service time (0 for depot, facility)
    vehicle_capacities,            \* vehicle -> capacity
    max_shift_duration_vehicles,   \* vehicle -> maximum shift duration
    travel_costs,                  \* arc -> cost
    travel_times,                  \* arc -> time
    pc,                            \* where the run is
    vi,                            \* position of the vehicle loop in V
    unserved,                      \* the heuristic's shared unserved set
    routes,                        \* vehicle -> finished route
    route, cur, load, time,        \* the route being built
    x,                             \* selected <<i, j, k>> (x[i,j,k] = 1)
    y,                             \* used vehicles (y[k] = 1)
    status, SolCount,              \* what the solver returned
    si,                            \* position of the route-summary loop in V
    report,                        \* what the run has printed, in order
    selected_arcs, max_steps,      \* the arguments of _extract_route
    ext_route, ext_cur, steps,     \* its route, its cur and its loop count
    vehicles, customers,           \* the arguments of build_instance: the ids
    depots, facilities,            \*   of the entities of each list,
    distance_mode,                 \*   the distance source
    distance_matrix, time_matrix,  \*   and the optional matrices
    built                          \* what build_instance returned or raised

instance == <<V, node_positions, demand, service, vehicle_capacities,
              max_shift_duration_vehicles, travel_costs, travel_times>>
greedy == <<vi, unserved, routes, route, cur, load, time>>
output == <<status, SolCount, si, report>>
extract == <<selected_arcs, max_steps, ext_route, ext_cur, steps>>
build == <<vehicles, customers, depots, facilities, distance_mode,
           distance_matrix, time_matrix, built>>
rest == <<output, extract, build>>
vars == <<instance, greedy, pc, x, y, rest>>

\* ------------------------------------------------------------ the instance
Vehicles == {V[n] : n \in 1..Len(V)}

Abs(n) == IF n < 0 THEN 0 - n ELSE n
Max(a, b) == IF a >= b THEN a ELSE b

\* every ordered pair of distinct nodes: for i in N: for j in N: if i == j: continue
A == {a \in N \X N : a[1] # a[2]}

\* math.hypot(x1 - x2, y1 - y2) of two nodes on the line y = 0, in 1/PosDen
distance(pos, a, b) == Abs(pos[a] - pos[b])

\* round(num / den): Python rounds to the nearest integer, a half to the even one
Round(num, den) ==
    LET q == num \div den
        r == num % den
    IN  IF 2 * r < den THEN q
        ELSE IF 2 * r > den THEN q + 1
        ELSE IF q % 2 = 0 THEN q ELSE q + 1

\* an arc weight that is rounded but not raised to 1
ArcWeight_unclamped(dist, scale) == Round(dist * scale, PosDen)

\* max(1, int(round(dist * scale))) for a distance of dist/PosDen
ArcWeight(dist, scale) == Max(1, Round(dist * scale, PosDen))

\* the travel_costs and travel_times build_instance fills
BuiltCosts(pos) ==
    [a \in A |-> ArcWeight(distance(pos, a[1], a[2]), cost_per_unit)]
BuiltTimes(pos) ==
    [a \in A |-> ArcWeight(distance(pos, a[1], a[2]), time_per_unit)]

\* nothing is returned or printed before m.optimize()
InitOutput ==
    /\ status = "LOADED"
    /\ SolCount = 0
    /\ si = 1
    /\ report = <<>>

\* _extract_route has not been called
InitExtractIdle ==
    /\ selected_arcs = <<>>
    /\ max_steps = 0
    /\ ext_route = <<>>
    /\ ext_cur = depot
    /\ steps = 0

\* ---------------------------------------------------------- build_instance
\* distance_matrix=None
NoMatrix == [given |-> FALSE, pairs |-> {}, rows |-> {}, raw |-> <<>>]

\* a lookup that knows the tuple-keyed shape only
HasEntry_tuple_only(matrix, i, j) == <<i, j>> \in matrix.pairs

\* _distance_from_matrix finds an entry under the key (i, j) or in the row
\* of i: matrix.pairs are the tuple keys, matrix.rows the (i, j) with j in
\* matrix[i]
HasEntry(matrix, i, j) == <<i, j>> \in matrix.pairs \/ <<i, j>> \in matrix.rows

\* a loop that also skips the arcs into the first node
skipped_pair_into_first(Nl, i, j) == i = j \/ j = Nl[1]

\* if i == j: continue
skipped_pair(Nl, i, j) == i = j

\* the pairs the loop "for i in N: for j in N" works on, in its order
LoopPairs(Nl) ==
    LET n == Len(Nl)
        all == [p \in 1..(n * n) |-> <<Nl[((p - 1) \div n) + 1], Nl[((p - 1) % n) + 1]>>]
    IN  SelectSeq(all, LAMBDA a : ~skipped_pair(Nl, a[1], a[2]))

\* kilometres per degree of latitude, 6371.0088 * pi / 180 to the integer
KmPerDegree == 111

\* distance(i, j) of the chosen source, in 1/PosDen: the raw value of the
\* matrix entry; or the distance along the line; or the haversine distance,
\* which for two points of one meridian is their difference in latitude
\* times KmPerDegree
SourceDistance(mode, dm, i, j) ==
    IF dm.given THEN dm.raw[<<i, j>>]
    ELSE IF mode = "euclidean" THEN distance(node_positions, i, j)
    ELSE distance(node_positions, i, j) * KmPerDegree

\* build_instance: the Instance it returns or the error it raises
build_instance(vs, cs, ds, fs, mode, dm, tm) ==
    LET failure(kind, message, pair) ==
            [kind |-> kind, message |-> message, pair |-> pair]
    IN
    IF Len(ds) # 1
      THEN failure("ValueError", "Exactly one depot is supported", <<>>)
    ELSE IF Len(fs) # 1
      THEN failure("ValueError", "Exactly one disposal facility is supported", <<>>)
    ELSE IF ~dm.given /\ mode \notin {"euclidean", "haversine_km"}
      THEN failure("ValueError", "Unknown distance_mode", <<>>)
    ELSE
      LET Dl == <<ds[1]>>
          Fl == <<fs[1]>>
          Nl == Dl \o cs \o Fl
          pairs == LoopPairs(Nl)
          raising == {p \in 1..Len(pairs) :
                         \/ dm.given /\ ~HasEntry(dm, pairs[p][1], pairs[p][2])
                         \/ tm.given /\ ~HasEntry(tm, pairs[p][1], pairs[p][2])}
          keys == {pairs[p] : p \in 1..Len(pairs)}
      IN  IF raising # {}
            THEN failure("KeyError", "Missing distance",
                         pairs[CHOOSE p \in raising : \A q \in raising : p <= q])
            ELSE [kind |-> "Instance", message |-> "", pair |-> <<>>,
                  V |-> vs, C |-> cs, D |-> Dl, F |-> Fl, N |-> Nl,
                  travel_costs |->
                     [a \in keys |->
                        ArcWeight(SourceDistance(mode, dm, a[1], a[2]), cost_per_unit)],
                  travel_times |->
                     [a \in keys |->
                        IF tm.given
                          THEN ArcWeight(tm.raw[a], 1)
                          ELSE ArcWeight(SourceDistance(mode, dm, a[1], a[2]),
                                         time_per_unit)]]

\* what the caller sees of a call besides the Instance itself: that it
\* returned, or the error raised
Outcome(result) ==
    [kind |-> result.kind, message |-> result.message, pair |-> result.pair]

\* the outcome of a call that returned an Instance
Returned == [kind |-> "Instance", message |-> "", pair |-> <<>>]

\* the script's call, which returned the instance the run works on: the
\* loaded lists, DISTANCE_MODE = "euclidean" and no matrix
\* (USE_ROAD_DISTANCES = False)
InitBuilt ==
    /\ vehicles = V
    /\ customers = Customers
    /\ depots = <<depot>>
    /\ facilities = <<facility>>
    /\ distance_mode = "euclidean"
    /\ distance_matrix = NoMatrix
    /\ time_matrix = NoMatrix
    /\ built = Returned

\* the entity ids a call may be given
DepotPool == <<"D", "D2">>
FacilityPool == <<"F", "F2">>
Prefixes(l) == {SubSeq(l, 1, n) : n \in 0..Len(l)}
PoolNodes ==
    {l[p] : l \in {DepotPool, Customers, FacilityPool}, p \in 1..2}

\* where the entities of a call lie
BuildPositions ==
    [n \in PoolNodes |-> IF n \in {"D", "D2"} THEN 0
                         ELSE IF n = "C1" THEN 1
                         ELSE IF n = "C2" THEN MaxPos
                         ELSE 2]

\* a matrix over the pairs of N that is complete or lacks one pair, keyed by
\* tuples or nested by row, its entries the distances along the line; or no
\* matrix
MatrixChoices ==
    LET raw == [a \in A |-> distance(BuildPositions, a[1], a[2])]
    IN  {NoMatrix}
        \cup {[given |-> TRUE, pairs |-> A \ m, rows |-> {}, raw |-> raw] :
                 m \in {{}} \cup {{a} : a \in A}}
        \cup {[given |-> TRUE, pairs |-> {}, rows |-> A \ m, raw |-> raw] :
                 m \in {{}} \cup {{a} : a \in A}}

\* build_instance is about to be called on lists of zero, one or two
\* entities each, with any distance source
InitBuild ==
    /\ vehicles \in Prefixes(Fleet)
    /\ customers \in Prefixes(Customers)
    /\ depots \in Prefixes(DepotPool)
    /\ facilities \in Prefixes(FacilityPool)
    /\ distance_mode \in {"euclidean", "haversine_km", "manhattan"}
    /\ distance_matrix \in MatrixChoices
    /\ time_matrix \in MatrixChoices
    /\ built = [kind |-> "pending", message |-> "", pair |-> <<>>]
    /\ node_positions = BuildPositions
    /\ V = vehicles
    /\ demand = [n \in PoolNodes |-> IF n \in C THEN 1 ELSE 0]
    /\ service = [n \in PoolNodes |-> 0]
    /\ vehicle_capacities = [k \in Vehicles |-> MaxCap]
    /\ max_shift_duration_vehicles = [k \in Vehicles |-> AmpleShift]
    /\ travel_costs = <<>>
    /\ travel_times = <<>>
    /\ vi = 1
    /\ unserved = {}
    /\ routes = <<>>
    /\ route = <<>>
    /\ cur = depot
    /\ load = 0
    /\ time = 0
    /\ x = {}
    /\ y = {}
    /\ InitOutput
    /\ InitExtractIdle
    /\ pc = "build"

\* instance = build_instance(...): the call returns an Instance, whose
\* maps the script then reads, or raises
BuildInstance ==
    /\ pc = "build"
    /\ LET result == build_instance(vehicles, customers, depots, facilities,
                                     distance_mode, distance_matrix, time_matrix)
       IN  /\ built' = Outcome(result)
           /\ IF result.kind = "Instance"
                THEN /\ travel_costs' = result.travel_costs
                     /\ travel_times' = result.travel_times
                     /\ pc' = "built"
                ELSE /\ UNCHANGED <<travel_costs, travel_times>>
                     /\ pc' = "crash"
    /\ UNCHANGED <<V, node_positions, demand, service, vehicle_capacities,
                   max_shift_duration_vehicles, greedy, x, y, output, extract,
                   vehicles, customers, depots, facilities, distance_mode,
                   distance_matrix, time_matrix>>

SpecBuild == InitBuild /\ [][BuildInstance]_vars

\* raw matrix values in 1/PosDen: negative, zero, below one unit, and above
RawChoices == {0 - 3, 0, 1, 3, 5}

\* complete matrices whose entries out of the depot hold one raw value and
\* all others another; or no matrix
RawMatrixChoices ==
    {NoMatrix}
    \cup {[given |-> TRUE, pairs |-> A, rows |-> {},
           raw |-> [a \in A |-> IF a[1] = depot THEN r1 ELSE r2]] :
             r1 \in RawChoices, r2 \in RawChoices}

\* build_instance is about to be called on the full lists, with nodes
\* anywhere on the line and any raw values in the matrices
InitRound ==
    /\ vehicles = Fleet
    /\ customers = Customers
    /\ depots = <<depot>>
    /\ facilities = <<facility>>
    /\ distance_mode \in {"euclidean", "haversine_km"}
    /\ distance_matrix \in RawMatrixChoices
    /\ time_matrix \in RawMatrixChoices
    /\ built = [kind |-> "pending", message |-> "", pair |-> <<>>]
    /\ node_positions \in [N -> 0..MaxPos]
    /\ node_positions[depot] = 0
    /\ V = vehicles
    /\ demand = [n \in N |-> IF n \in C THEN 1 ELSE 0]
    /\ service = [n \in N |-> 0]
    /\ vehicle_capacities = [k \in Vehicles |-> MaxCap]
    /\ max_shift_duration_vehicles = [k \in Vehicles |-> AmpleShift]
    /\ travel_costs = <<>>
    /\ travel_times = <<>>
    /\ vi = 1
    /\ unserved = {}
    /\ routes = <<>>
    /\ route = <<>>
    /\ cur = depot
    /\ load = 0
    /\ time = 0
    /\ x = {}
    /\ y = {}
    /\ InitOutput
    /\ InitExtractIdle
    /\ pc = "build"

SpecRound == InitRound /\ [][BuildInstance]_vars

ShiftChoices == {TightShift, MidShift, AmpleShift}

\* the Instance of build_instance for one or more vehicles, the customers, one
\* depot at 0 and one facility at either end of the line
InitInstance ==
    /\ V \in {SubSeq(Fleet, 1, n) : n \in 1..Len(Fleet)}
    /\ node_positions \in [N -> 0..MaxPos]
    /\ node_positions[depot] = 0
    /\ node_positions[facility] \in {0, MaxPos}
    /\ \E d \in [C -> 1..MaxDemand] :
         demand = [n \in N |-> IF n \in C THEN d[n] ELSE 0]
    /\ \E s \in [C -> 0..MaxService] :
         service = [n \in N |-> IF n \in C THEN s[n] ELSE 0]
    /\ vehicle_capacities \in [Vehicles -> 1..MaxCap]
    /\ max_shift_duration_vehicles \in [Vehicles -> ShiftChoices]
    /\ travel_costs = BuiltCosts(node_positions)
    /\ travel_times = BuiltTimes(node_positions)

\* ----------------------------------------------------------- the heuristic
k_cur == V[vi]

\* the projected finish without the return leg facility -> depot
finish_time_without_return(c) ==
    time + (travel_times[<<cur, c>>] + service[cur])
         + travel_times[<<c, facility>>] + service[c]

finish_time(c) ==
    time + (travel_times[<<cur, c>>] + service[cur])
         + travel_times[<<c, facility>>] + service[c]
         + travel_times[<<facility, depot>>]

\* the candidates when the capacity test is skipped
candidates_ignoring_capacity ==
    {c \in unserved :
        /\ <<cur, c>> \in DOMAIN travel_times
        /\ <<c, facility>> \in DOMAIN travel_times
        /\ <<facility, depot>> \in DOMAIN travel_times
        /\ finish_time(c) <= max_shift_duration_vehicles[k_cur]}

\* the candidates when a customer that fills the vehicle exactly is refused
candidates_below_capacity ==
    {c \in unserved :
        /\ load + demand[c] < vehicle_capacities[k_cur]
        /\ <<cur, c>> \in DOMAIN travel_times
        /\ <<c, facility>> \in DOMAIN travel_times
        /\ <<facility, depot>> \in DOMAIN travel_times
        /\ finish_time(c) <= max_shift_duration_vehicles[k_cur]}

candidates ==
    {c \in unserved :
        /\ ~(load + demand[c] > vehicle_capacities[k_cur])
        /\ <<cur, c>> \in DOMAIN travel_times
        /\ <<c, facility>> \in DOMAIN travel_times
        /\ <<facility, depot>> \in DOMAIN travel_times
        /\ finish_time(c) <= max_shift_duration_vehicles[k_cur]}

\* a choice of any candidate, whatever its cost
AnyCandidate == candidates

\* min(candidates, key=cost): the first minimum in the iteration order of a
\* set of strings, which is not fixed: any candidate of minimal cost
MinCostCandidates ==
    {c \in candidates :
        \A o \in candidates : travel_costs[<<cur, c>>] <= travel_costs[<<cur, o>>]}

InitGreedy ==
    /\ pc = "loop"
    /\ vi = 1
    /\ unserved = C
    /\ routes = [k \in Vehicles |-> <<>>]
    /\ route = <<>>
    /\ cur = depot
    /\ load = 0
    /\ time = 0
    /\ x = {}
    /\ y = {}
    /\ InitOutput
    /\ InitExtractIdle

\* SpecGreedy starts from every instance of the bounds
InitWide == InitInstance /\ InitGreedy /\ InitBuilt

\* Spec, which goes on to the exact model, starts from the instances whose
\* nodes all sit at the depot (every arc weight is the minimum 1), whose
\* customers need no service time, whose vehicles have one capacity and whose
\* shifts are tight or ample
Init ==
    /\ InitWide
    /\ \A n \in N : node_positions[n] = 0 /\ service[n] = 0
    /\ \A k \in Vehicles :
         /\ vehicle_capacities[k] = vehicle_capacities[V[1]]
         /\ max_shift_duration_vehicles[k] # MidShift

\* for k in V: ... route = [depot]
NextVehicle ==
    /\ pc = "loop"
    /\ vi <= Len(V)
    /\ unserved # {}
    /\ route' = <<depot>>
    /\ cur' = depot
    /\ load' = 0
    /\ time' = 0
    /\ pc' = "extend"
    /\ UNCHANGED <<instance, vi, unserved, routes, x, y, rest>>

\* if not unserved: break
BreakLoop ==
    /\ pc = "loop"
    /\ vi <= Len(V)
    /\ unserved = {}
    /\ pc' = "done"
    /\ UNCHANGED <<instance, greedy, x, y, rest>>

\* the vehicle list is exhausted
LoopEnd ==
    /\ pc = "loop"
    /\ vi > Len(V)
    /\ pc' = "done"
    /\ UNCHANGED <<instance, greedy, x, y, rest>>

\* a step that leaves the chosen customer in the unserved set
remaining_unchanged(c) == unserved

\* unserved.remove(next_c)
remaining_after(c) == unserved \ {c}

\* one candidate-selection step of the while loop
Extend ==
    /\ pc = "extend"
    /\ candidates # {}
    /\ \E next_c \in MinCostCandidates :
         /\ route' = Append(route, next_c)
         /\ time' = time + travel_times[<<cur, next_c>>] + service[cur]
         /\ load' = load + demand[next_c]
         /\ unserved' = remaining_after(next_c)
         /\ cur' = next_c
    /\ UNCHANGED <<instance, vi, routes, pc, x, y, rest>>

\* a route closed without the facility
closed_route_skipping_facility(r) == r \o <<depot>>

\* route.append(facility); route.append(depot)
closed_route(r) == r \o <<facility, depot>>

\* a vehicle loop that stays on the same vehicle
same_vehicle(i) == i

\* for k in V: the next pass takes the next vehicle
next_vehicle(i) == i + 1

\* if not candidates: break; then the route is closed or left empty
CloseRoute ==
    /\ pc = "extend"
    /\ candidates = {}
    /\ IF Len(route) > 1
         THEN /\ route' = closed_route(route)
              /\ time' = time + (travel_times[<<cur, facility>>] + service[cur])
                              + (travel_times[<<facility, depot>>] + service[facility])
              /\ cur' = facility
              /\ routes' = [routes EXCEPT ![k_cur] = closed_route(route)]
         ELSE UNCHANGED <<route, time, cur, routes>>
    /\ vi' = next_vehicle(vi)
    /\ pc' = "loop"
    /\ UNCHANGED <<instance, load, unserved, x, y, rest>>

NextGreedy == NextVehicle \/ BreakLoop \/ LoopEnd \/ Extend \/ CloseRoute

SpecGreedy == InitWide /\ [][NextGreedy]_vars

\* the script runs on: build_greedy_solution takes its next step whenever
\* it has one
SpecGreedyFair == SpecGreedy /\ WF_vars(NextGreedy)

\* ---------------------------------------------- the warm start (MIP start)
\* not heuristic["unserved"] and any(heuristic["routes"].values())
USE_MIP_START ==
    /\ unserved = {}
    /\ \E k \in Vehicles : routes[k] # <<>>

\* x[a, b, k].Start = 1.0 for the consecutive pairs of every non-empty route
WarmX ==
    UNION {{<<routes[k][n], routes[k][n + 1], k>> :
                n \in {m \in 1..(Len(routes[k]) - 1) :
                          <<routes[k][m], routes[k][m + 1]>> \in DOMAIN travel_costs}} :
              k \in {v \in Vehicles : routes[v] # <<>>}}

\* y[k].Start = 1.0 for every vehicle with a non-empty route
WarmY == {k \in Vehicles : routes[k] # <<>>}

RECURSIVE RouteLoad(_, _)
\* the running load after the n-th node of a route
RouteLoad(r, n) ==
    IF n = 0 THEN 0 ELSE RouteLoad(r, n - 1) + (IF r[n] \in C THEN demand[r[n]] ELSE 0)

\* u[b, k].Start = load for every customer b of route k; nothing else is set
WarmU ==
    [c \in C, k \in Vehicles |->
        IF \E n \in 1..Len(routes[k]) : routes[k][n] = c
          THEN RouteLoad(routes[k], CHOOSE n \in 1..Len(routes[k]) : routes[k][n] = c)
          ELSE 0]

\* --------------------------------------------------------- the exact model
\* An assignment is (xs, ys, us): xs the set of <<i, j, k>> with x[i,j,k] = 1,
\* ys the set of k with y[k] = 1, us the loads u[c, k].
X(xs, i, j, k) == IF <<i, j, k>> \in xs THEN 1 ELSE 0
Y(ys, k) == IF k \in ys THEN 1 ELSE 0

\* quicksum(x[n, j, k] for j in N if (n, j) in travel_costs)
OutDeg(xs, n, k) ==
    Cardinality({t \in xs : t[1] = n /\ t[3] = k /\ <<n, t[2]>> \in DOMAIN travel_costs})
\* quicksum(x[i, n, k] for i in N if (i, n) in travel_costs)
InDeg(xs, n, k) ==
    Cardinality({t \in xs : t[2] = n /\ t[3] = k /\ <<t[1], n>> \in DOMAIN travel_costs})

RECURSIVE SumOver(_, _, _)
\* acc plus the sum of f[e] over the elements e of S
SumOver(S, f, acc) ==
    IF S = {} THEN acc
    ELSE LET e == CHOOSE e \in S : TRUE IN SumOver(S \ {e}, f, acc + f[e])

\* quicksum(x[c, j, k] for k in V for j in N if (c, j) in travel_costs) == 1
visit_out(xs, c) ==
    Cardinality({t \in xs : t[1] = c /\ t[3] \in Vehicles
                              /\ <<c, t[2]>> \in DOMAIN travel_costs}) = 1
\* quicksum(x[i, c, k] for k in V for i in N if (i, c) in travel_costs) == 1
visit_in(xs, c) ==
    Cardinality({t \in xs : t[2] = c /\ t[3] \in Vehicles
                              /\ <<t[1], c>> \in DOMAIN travel_costs}) = 1
depot_out(xs, ys, k) == OutDeg(xs, depot, k) = Y(ys, k)
depot_in(xs, ys, k) == InDeg(xs, depot, k) = Y(ys, k)
\* use_link left out of the model
use_link_dropped(xs, ys, c, k) == TRUE
use_link(xs, ys, c, k) == OutDeg(xs, c, k) <= Y(ys, k)
\* flow conservation stated for the facility only (for n in F)
flow_at_facility_only(xs, n, k) == n \in C \/ OutDeg(xs, n, k) = InDeg(xs, n, k)
flow(xs, n, k) == OutDeg(xs, n, k) = InDeg(xs, n, k)
facility_in(xs, ys, k) == InDeg(xs, facility, k) >= Y(ys, k)
no_cust_to_depot(xs, i, k) ==
    <<i, depot>> \in DOMAIN travel_costs => X(xs, i, depot, k) = 0

load_ub(xs, us, c, k) == us[c, k] <= vehicle_capacities[k] * InDeg(xs, c, k)
load_lb(xs, us, c, k) == us[c, k] >= demand[c] * InDeg(xs, c, k)
load_start(xs, us, i, j, k) ==
    <<i, j>> \in DOMAIN travel_costs =>
        us[j, k] >= demand[j] - vehicle_capacities[k] * (1 - X(xs, i, j, k))
\* load propagation without the demand of the customer entered
load_prop_without_demand(xs, us, i, j, k) ==
    <<i, j>> \in DOMAIN travel_costs =>
        us[j, k] >= us[i, k] - vehicle_capacities[k] * (1 - X(xs, i, j, k))
load_prop(xs, us, i, j, k) ==
    <<i, j>> \in DOMAIN travel_costs =>
        us[j, k] >= us[i, k] + demand[j] - vehicle_capacities[k] * (1 - X(xs, i, j, k))

\* the shift time counting service but not travel
ShiftTime_service_only(xs, k) ==
    SumOver(DOMAIN travel_costs,
            [a \in DOMAIN travel_costs |-> service[a[1]] * X(xs, a[1], a[2], k)], 0)
\* quicksum((travel_times[i, j] + service[i]) * x[i, j, k] for (i, j) in A)
ShiftTime(xs, k) ==
    SumOver(DOMAIN travel_costs,
            [a \in DOMAIN travel_costs |->
                (travel_times[a] + service[a[1]]) * X(xs, a[1], a[2], k)], 0)
shift(xs, k) == ShiftTime(xs, k) <= max_shift_duration_vehicles[k]

\* the constraints on x and y alone
RoutingConstraints(xs, ys) ==
    /\ \A c \in C : visit_out(xs, c) /\ visit_in(xs, c)
    /\ \A k \in Vehicles :
         /\ depot_out(xs, ys, k)
         /\ depot_in(xs, ys, k)
         /\ \A c \in C : use_link(xs, ys, c, k)
         /\ \A n \in C \cup {facility} : flow(xs, n, k)
         /\ facility_in(xs, ys, k)
         /\ \A i \in C : no_cust_to_depot(xs, i, k)

\* the constraints that involve the loads u
LoadConstraints(xs, us) ==
    \A k \in Vehicles :
        /\ \A c \in C : load_ub(xs, us, c, k) /\ load_lb(xs, us, c, k)
        /\ \A j \in C : \A i \in {depot, facility} : load_start(xs, us, i, j, k)
        /\ \A i \in C : \A j \in C : load_prop(xs, us, i, j, k)

ShiftConstraints(xs) == \A k \in Vehicles : shift(xs, k)

AllConstraints(xs, ys, us) ==
    /\ RoutingConstraints(xs, ys)
    /\ LoadConstraints(xs, us)
    /\ ShiftConstraints(xs)

\* Loads are continuous and >= 0 (lb=0.0).  With x fixed to 0/1 the load
\* constraints are bounds and differences with integer constants, so they have
\* a real solution exactly when they have an integer one, and load_ub keeps
\* every load of a visited customer at or below the largest capacity.
Loads == [C \X Vehicles -> 0..MaxCap]

\* (xs, ys) is the x, y part of an assignment satisfying every constraint
Feasible(xs, ys) ==
    /\ RoutingConstraints(xs, ys)
    /\ ShiftConstraints(xs)
    /\ \E us \in Loads : LoadConstraints(xs, us)

\* ------------------------------------------------------------- the solver
\* m.optimize(): from here the solver holds an assignment
Optimize ==
    /\ pc = "done"
    /\ pc' = "solve"
    /\ UNCHANGED <<instance, greedy, x, y, rest>>

\* The place of x[i, j, k] in the order the variables were added:
\* m.addVars(A, V), A in the order the arcs were built (for i in N: for j in N)
NodeIndex == [n \in N |-> CHOOSE p \in 1..Len(NodeList) : NodeList[p] = n]
VehicleIndex == [k \in AllVehicles |-> CHOOSE p \in 1..Len(Fleet) : Fleet[p] = k]
VarIndex ==
    [t \in N \X N \X AllVehicles |->
        ((NodeIndex[t[1]] * Len(NodeList)) + NodeIndex[t[2]]) * Len(Fleet)
            + VehicleIndex[t[3]]]

\* A selection that gives a customer two outbound or two inbound arcs, a
\* vehicle two arcs out of or into the depot, or a customer an arc to the
\* depot exceeds the right-hand side of visit_out, visit_in, depot_out,
\* depot_in or no_cust_to_depot, and so does every selection containing it:
\* no solution is lost by never holding one.  t may join xs when xs with t
\* stays within these bounds.
WithinDegreeBounds(xs, t) ==
    /\ ~(t[1] \in C /\ t[2] = depot)
    /\ \A o \in xs :
         /\ t[1] \in C => o[1] # t[1]
         /\ t[2] \in C => o[2] # t[2]
         /\ t[1] = depot => ~(o[1] = depot /\ o[3] = t[3])
         /\ t[2] = depot => ~(o[2] = depot /\ o[3] = t[3])

\* The usage flags are fixed first, in the order of V.
UseVehicle ==
    /\ pc = "solve"
    /\ x = {}
    /\ \E k \in Vehicles \ y :
         /\ \A o \in y : VehicleIndex[o] < VehicleIndex[k]
         /\ y' = y \cup {k}
    /\ UNCHANGED <<instance, greedy, pc, x, rest>>

\* Then arcs are selected in the order of their variables, so that every
\* selection within the degree bounds is reached, and reached once.
\* the variables after the m-th
Triples == {<<a[1], a[2], k>> : a \in A, k \in AllVehicles}
LastIndex == (Len(NodeList) * Len(NodeList) + Len(NodeList)) * Len(Fleet) + Len(Fleet)
TriplesAfter == [m \in 0..LastIndex |-> {t \in Triples : VarIndex[t] > m}]

RECURSIVE MaxIndex(_, _)
\* the largest index of a selected variable, m if none is larger
MaxIndex(xs, m) ==
    IF xs = {} THEN m
    ELSE LET o == CHOOSE o \in xs : TRUE
         IN  MaxIndex(xs \ {o}, Max(m, VarIndex[o]))

\* Then arcs are selected in the order of their variables, so that every
\* selection within the degree bounds is reached, and reached once.
SelectArc ==
    /\ pc = "solve"
    /\ \E t \in TriplesAfter[MaxIndex(x, 0)] :
         /\ <<t[1], t[2]>> \in DOMAIN travel_costs
         /\ t[3] \in Vehicles
         /\ WithinDegreeBounds(x, t)
         /\ x' = x \cup {t}
    /\ UNCHANGED <<instance, greedy, pc, y, rest>>


\* --------------------------------------------------------- _extract_route
\* the arc of arcs that the dict comprehension keeps for key i: the last one
LastArcFrom(arcs, i) ==
    arcs[CHOOSE p \in 1..Len(arcs) :
            /\ arcs[p][1] = i
            /\ \A q \in (p + 1)..Len(arcs) : arcs[q][1] # i]

\* next_map = {i: j for (i, j) in selected_arcs}
next_map ==
    [i \in {selected_arcs[p][1] : p \in 1..Len(selected_arcs)} |->
        LastArcFrom(selected_arcs, i)[2]]

\* the route summary passes start = depot
start == depot

\* a loop that never notices the return to the start node
back_at_start_ignored(n) == FALSE

\* if cur == start: break
back_at_start(n) == n = start

\* a loop that runs one iteration more than range(max_steps)
within_max_steps_plus_one == steps <= max_steps

\* for _ in range(max_steps)
within_max_steps == steps < max_steps

\* one pass of the loop head and body:
\*   for _ in range(max_steps):
\*       if cur not in next_map: break
\*       nxt = next_map[cur]; route.append(nxt); cur = nxt
\*       if cur == start: break
ExtractStep ==
    /\ pc = "extract"
    /\ IF ~within_max_steps \/ ext_cur \notin DOMAIN next_map
         THEN /\ pc' = "extracted"
              /\ UNCHANGED <<ext_route, ext_cur, steps>>
         ELSE LET nxt == next_map[ext_cur]
              IN  /\ ext_route' = Append(ext_route, nxt)
                  /\ ext_cur' = nxt
                  /\ steps' = steps + 1
                  /\ pc' = IF back_at_start(nxt) THEN "extracted" ELSE "extract"
    /\ UNCHANGED <<instance, greedy, x, y, output, selected_arcs, max_steps, build>>

\* return route, and the route summary prints it for the vehicle at hand
PrintRoute ==
    /\ pc = "extracted"
    /\ report' = Append(report, <<"Route", V[si], ext_route>>)
    /\ si' = si + 1
    /\ pc' = "summary"
    /\ UNCHANGED <<instance, greedy, x, y, status, SolCount, extract, build>>

NextExtract == ExtractStep \/ PrintRoute


\* the arc selections _extract_route is tried on: every list of at most
\* MaxArcs distinct arcs, in every order
ArcLists ==
    UNION {{l \in [1..n -> A] : \A p, q \in 1..n : p # q => l[p] # l[q]} :
              n \in 0..MaxArcs}

\* max_steps=len(N) + 5
summary_max_steps == Cardinality(N) + 5

\* _extract_route(selected_arcs, depot, max_steps) called on a synthetic arc
\* selection, for the first vehicle of a fixed instance
InitExtract ==
    /\ V = Fleet
    /\ node_positions = [n \in N |-> 0]
    /\ demand = [n \in N |-> IF n \in C THEN 1 ELSE 0]
    /\ service = [n \in N |-> 0]
    /\ vehicle_capacities = [k \in Vehicles |-> MaxCap]
    /\ max_shift_duration_vehicles = [k \in Vehicles |-> AmpleShift]
    /\ travel_costs = BuiltCosts(node_positions)
    /\ travel_times = BuiltTimes(node_positions)
    /\ vi = 1
    /\ unserved = C
    /\ routes = [k \in Vehicles |-> <<>>]
    /\ route = <<>>
    /\ cur = depot
    /\ load = 0
    /\ time = 0
    /\ x = {}
    /\ y = {}
    /\ status = "OPTIMAL"
    /\ SolCount = 1
    /\ si = 1
    /\ report = <<>>
    /\ selected_arcs \in ArcLists
    /\ max_steps \in {SmallSteps, summary_max_steps}
    /\ ext_route = <<start>>
    /\ ext_cur = start
    /\ steps = 0
    /\ InitBuilt
    /\ pc = "extract"

\* the loop of _extract_route always goes on while it can
SpecExtract == InitExtract /\ [][NextExtract]_vars /\ WF_vars(NextExtract)

\* ------------------------------------------------------ the run's output
\* m.optimize() returns while the solver holds an assignment that satisfies
\* the constraints: OPTIMAL, or SUBOPTIMAL when a limit stopped the search
ReturnSolution ==
    /\ pc = "solve"
    /\ Feasible(x, y)
    /\ status' \in {"OPTIMAL", "SUBOPTIMAL"}
    /\ SolCount' = 1
    /\ pc' = "summary"
    /\ UNCHANGED <<instance, greedy, x, y, si, report, extract, build>>

\* m.optimize() returns without any assignment: the time limit ran out with
\* no incumbent, the model was found infeasible, or the solver gave up
ReturnNothing ==
    /\ pc = "solve"
    /\ x = {}
    /\ y = {}
    /\ status' \in {"SUBOPTIMAL", "INFEASIBLE", "ERROR"}
    /\ SolCount' = 0
    /\ pc' = "summary"
    /\ UNCHANGED <<instance, greedy, x, y, si, report, extract, build>>

\* m.optimize() does not return: the solver library reports an error by
\* raising, and nothing around the call at module level catches it
OptimizeRaises ==
    /\ pc = "solve"
    /\ x = {}
    /\ y = {}
    /\ status' = "ERROR"
    /\ pc' = "crash"
    /\ UNCHANGED <<instance, greedy, x, y, SolCount, si, report, extract, build>>

\* if m.SolCount > 0
SolutionAvailable == SolCount > 0

\* the place of an arc in A
ArcIndex(a) == NodeIndex[a[1]] * Len(NodeList) + NodeIndex[a[2]]

RECURSIVE InOrderOfA(_)
\* the arcs of S as a list in the order of A
InOrderOfA(S) ==
    IF S = {} THEN <<>>
    ELSE LET a == CHOOSE a \in S : \A o \in S : ArcIndex(a) <= ArcIndex(o)
         IN  <<a>> \o InOrderOfA(S \ {a})

\* arcs_k = [(i, j) for (i, j) in A if x[i, j, k].X > 0.5]
arcs_k(k) == InOrderOfA({<<t[1], t[2]>> : t \in {o \in x : o[3] = k}})

\* route summary, the head of one pass of "for k in V": an unused vehicle
\* is skipped (if y[k].X < 0.5: continue), for a used one _extract_route is
\* called on its selected arcs
SummaryVehicle ==
    /\ pc = "summary"
    /\ SolutionAvailable
    /\ si <= Len(V)
    /\ IF V[si] \notin y
         THEN /\ si' = si + 1
              /\ UNCHANGED <<pc, extract>>
         ELSE /\ selected_arcs' = arcs_k(V[si])
              /\ max_steps' = summary_max_steps
              /\ ext_route' = <<start>>
              /\ ext_cur' = start
              /\ steps' = 0
              /\ pc' = "extract"
              /\ si' = si
    /\ UNCHANGED <<instance, greedy, x, y, status, SolCount, report, build>>

\* the summary loop is over and the solution is drawn
SummaryEnd ==
    /\ pc = "summary"
    /\ SolutionAvailable
    /\ si > Len(V)
    /\ pc' = "end"
    /\ UNCHANGED <<instance, greedy, x, y, rest>>

\* sorted(unserved)
SortedUnserved == SelectSeq(Customers, LAMBDA c : c \in unserved)

RECURSIVE FallbackRoutes(_)
\* the lines printed for the non-empty heuristic routes of V[n], V[n+1], ...
FallbackRoutes(n) ==
    IF n > Len(V) THEN <<>>
    ELSE (IF routes[V[n]] = <<>> THEN <<>>
          ELSE <<<<"Route", V[n], routes[V[n]]>>>>) \o FallbackRoutes(n + 1)

\* if heuristic is not None and any(heuristic["routes"].values()): ...
FallbackLines ==
    IF \E k \in Vehicles : routes[k] # <<>>
      THEN <<<<"HeuristicFallback">>>> \o FallbackRoutes(1)
           \o (IF unserved # {} THEN <<<<"Unserved", SortedUnserved>>>> ELSE <<>>)
      ELSE <<>>

\* else: print("No feasible solution available to visualize.") and the
\* heuristic fallback
HeuristicFallback ==
    /\ pc = "summary"
    /\ ~SolutionAvailable
    /\ report' = report \o <<<<"NoSolution">>>> \o FallbackLines
    /\ pc' = "end"
    /\ UNCHANGED <<instance, greedy, x, y, status, SolCount, si, extract, build>>

Next ==
    \/ NextGreedy
    \/ Optimize
    \/ SelectArc
    \/ UseVehicle
    \/ ReturnSolution
    \/ ReturnNothing
    \/ OptimizeRaises
    \/ SummaryVehicle
    \/ NextExtract
    \/ SummaryEnd
    \/ HeuristicFallback

Spec == Init /\ [][Next]_vars
\* ====================================================================
\* Properties
\* ====================================================================
\* the solver holds an assignment that satisfies every constraint
Solution == pc = "solve" /\ Feasible(x, y)

\* the route's demand and time, summed again from the route alone
RouteDemand(r) ==
    SumOver({n \in 1..Len(r) : r[n] \in C}, [n \in 1..Len(r) |-> demand[r[n]]], 0)
RouteArcTime(r) ==
    SumOver(1..(Len(r) - 1),
            [n \in 1..(Len(r) - 1) |-> travel_times[<<r[n], r[n + 1]>>] + service[r[n]]], 0)

\* C1: every non-empty route of the heuristic carries at most the capacity of
\* its vehicle and takes at most its maximum shift duration, both re-summed
\* from the route.
C1_RoutesWithinCapacityAndShift ==
    \A k \in Vehicles :
        routes[k] # <<>> =>
            /\ RouteDemand(routes[k]) <= vehicle_capacities[k]
            /\ RouteArcTime(routes[k]) <= max_shift_duration_vehicles[k]

\* the heuristic returned two routes, one filled to the capacity of its
\* vehicle and one taking the whole shift of its vehicle
C1_Witness ==
    /\ pc = "done"
    /\ \A k \in Vehicles : routes[k] # <<>>
    /\ \E k \in Vehicles : RouteDemand(routes[k]) = vehicle_capacities[k]
    /\ \E k \in Vehicles : RouteArcTime(routes[k]) = max_shift_duration_vehicles[k]

\* an empty route, or depot, one or more customers, facility, depot
WellFormedRoute(r) ==
    \/ r = <<>>
    \/ /\ Len(r) >= 4
       /\ r[1] = depot
       /\ r[Len(r)] = depot
       /\ r[Len(r) - 1] = facility
       /\ \A n \in 2..(Len(r) - 2) : r[n] \in C

\* C7: every route of the heuristic's result is empty or has the form
\* depot, c1, ..., cm, facility, depot with m >= 1 customers: the depot only
\* first and last, the facility once, right before the final depot.
C7_RouteShape == \A k \in Vehicles : WellFormedRoute(routes[k])

\* the heuristic returned one empty route and one with two customers
C7_Witness ==
    /\ pc = "done"
    /\ \E k \in Vehicles : routes[k] = <<>>
    /\ \E k \in Vehicles : Len(routes[k]) = 5

\* C6: whenever a warm start is offered, the offered point (arcs of the
\* routes, usage flags of the routed vehicles, running loads of the routed
\* customers, zero elsewhere) satisfies every constraint of the exact model.
C6_WarmStartFeasible ==
    (pc = "done" /\ USE_MIP_START) => AllConstraints(WarmX, WarmY, WarmU)

\* a warm start is offered in which both vehicles have a route
C6_Witness ==
    /\ pc = "done"
    /\ USE_MIP_START
    /\ \A k \in Vehicles : routes[k] # <<>>

\* the selected arcs into and out of node n, over all vehicles
ArcsInto(n) == {t \in x : t[2] = n}
ArcsOutOf(n) == {t \in x : t[1] = n}

\* C2: in every assignment satisfying all constraints each customer has
\* exactly one selected inbound and one selected outbound arc over all
\* vehicles, both of the same vehicle, and no arc from a customer to the depot
\* is selected.
C2_CustomerDegrees ==
    Solution =>
        \A c \in C :
            /\ Cardinality(ArcsInto(c)) = 1
            /\ Cardinality(ArcsOutOf(c)) = 1
            /\ \E k \in Vehicles : InDeg(x, c, k) = 1 /\ OutDeg(x, c, k) = 1
            /\ \A k \in Vehicles : <<c, depot, k>> \notin x

\* a solution in which each of two vehicles serves a customer
C2_Witness ==
    /\ Solution
    /\ Len(V) = 2
    /\ \A k \in Vehicles : \E c \in C : InDeg(x, c, k) = 1

\* C3: in every assignment satisfying all constraints, the total demand of
\* the customers vehicle k enters is at most the capacity of k.
C3_TotalDemandWithinCapacity ==
    Solution =>
        \A k \in Vehicles :
            SumOver({c \in C : InDeg(x, c, k) >= 1}, demand, 0) <= vehicle_capacities[k]

TotalDemand == SumOver(C, demand, 0)
TotalCapacity == SumOver(Vehicles, vehicle_capacities, 0)

\* C4: when the total demand exceeds the total capacity of the fleet, no
\* assignment satisfies all constraints.
C4_OverloadInfeasible ==
    (pc = "solve" /\ TotalDemand > TotalCapacity) => ~Feasible(x, y)

\* the time of the round trip depot, c, facility, depot
RoundTrip(c) ==
    travel_times[<<depot, c>>] + service[c] + travel_times[<<c, facility>>]
        + travel_times[<<facility, depot>>]
\* the shift of v is shorter than the round trip to any single customer
ShortShift(v) == \A c \in C : max_shift_duration_vehicles[v] < RoundTrip(c)

\* C5, as stated: a vehicle whose shift is shorter than every single-customer
\* round trip is left without a route by the heuristic and has y = 0 in every
\* assignment satisfying all constraints.
C5_ShortShiftVehicleUnused ==
    \A v \in Vehicles :
        ShortShift(v) =>
            /\ routes[v] = <<>>
            /\ Solution => v \notin y

\* C5, amended: such a vehicle is left without a route by the heuristic, and no
\* assignment satisfying all constraints selects for it the three arcs of a
\* single-customer round trip.
C5_ShortShiftNoRoundTrip ==
    \A v \in Vehicles :
        ShortShift(v) =>
            /\ routes[v] = <<>>
            /\ Solution =>
                 \A c \in C :
                     ~({<<depot, c, v>>, <<c, facility, v>>, <<facility, depot, v>>}
                           \subseteq x)

\* the heuristic passed over a short-shift vehicle and routed another, and the
\* solver holds a solution that uses the short-shift vehicle
C5_Witness ==
    /\ Solution
    /\ \E v \in Vehicles : ShortShift(v) /\ v \in y
    /\ \E k \in Vehicles : routes[k] # <<>>

\* C8: in every assignment satisfying all constraints, the arcs of a used
\* vehicle form one route: no node is entered or left twice, and the facility
\* is entered once and left once, for the depot.
C8_FacilityOncePerUsedVehicle ==
    Solution =>
        \A k \in y :
            /\ \A n \in N : InDeg(x, n, k) <= 1 /\ OutDeg(x, n, k) <= 1
            /\ InDeg(x, facility, k) = 1
            /\ OutDeg(x, facility, k) = 1
            /\ <<facility, depot, k>> \in x

\* C9: no assignment satisfying all constraints contains, for any vehicle, a
\* cycle of selected arcs through customers only.
C9_NoCustomerCycle ==
    Solution =>
        \A k \in Vehicles :
            ~\E S \in SUBSET C \ {{}} :
                \A c \in S : \E d \in S : <<c, d, k>> \in x

\* a solution with a selected arc from one customer to another
C9_Witness ==
    /\ Solution
    /\ \E k \in Vehicles : \E c \in C : \E d \in C : <<c, d, k>> \in x

\* C10: in every assignment satisfying all constraints, a vehicle with
\* y = 0 has no selected arc.
C10_UnusedVehicleHasNoArcs ==
    Solution => \A k \in Vehicles \ y : \A t \in x : t[3] # k

\* a solution that leaves one of two vehicles unused
C10_Witness ==
    /\ Solution
    /\ Len(V) = 2
    /\ Cardinality(y) = 1

\* ------------------------------------------------------ route extraction
\* the consecutive arcs of a node sequence r
ConsecutiveArcs(r) == {<<r[p], r[p + 1]>> : p \in 1..(Len(r) - 1)}

\* the routes [depot, n1, ..., nm, depot] over distinct nodes of N, m >= 1
SimpleRoutes ==
    {<<depot>> \o l \o <<depot>> :
        l \in UNION {{f \in [1..m -> N \ {depot}] :
                         \A p, q \in 1..m : p # q => f[p] # f[q]} :
                     m \in 1..(Cardinality(N) - 1)}}

ArcSet == {selected_arcs[p] : p \in 1..Len(selected_arcs)}

\* C11: for any route [depot, n1, ..., nm, depot] over distinct nodes,
\* _extract_route on its consecutive arcs, in any order, with start = depot
\* and max_steps = |N| + 5 returns exactly that node sequence.
C11_ExtractRoundTrip ==
    (pc \in {"extracted", "summary"} /\ max_steps = summary_max_steps) =>
        \A r \in SimpleRoutes : ArcSet = ConsecutiveArcs(r) => ext_route = r

\* the arcs of depot -> facility -> C2 -> C1 -> depot, listed out of route
\* order, have been extracted
C11_Witness ==
    /\ pc = "extracted"
    /\ max_steps = summary_max_steps
    /\ selected_arcs = <<<<"C1", depot>>, <<facility, "C2">>,
                         <<depot, facility>>, <<"C2", "C1">>>>
    /\ ext_route = <<depot, facility, "C2", "C1", depot>>

\* the loop used up max_steps with the route neither back at the start node
\* nor at a node without successor
Truncated ==
    /\ steps = max_steps
    /\ ext_cur # start
    /\ ext_cur \in DOMAIN next_map

IntegrityErrors == {p \in 1..Len(report) : report[p][1] = "IntegrityError"}

\* C12: when _extract_route exhausts max_steps without returning to the
\* start node or running out of successors, the run reports a data-integrity
\* error instead of silently printing the truncated route.
C12_TruncationReported ==
    (pc = "summary" /\ Len(report) > 0 /\ Truncated) => IntegrityErrors # {}

\* C13: _extract_route terminates on every arc set: it follows at most
\* max_steps successors, the route has at most max_steps + 1 nodes, and it
\* stops at the first return to the start node or at the first node without
\* a successor.
C13_Bounded ==
    /\ steps <= max_steps
    /\ Len(ext_route) = steps + 1
    /\ Len(ext_route) <= max_steps + 1
    /\ \A p \in 2..(Len(ext_route) - 1) : ext_route[p] # start
    /\ \A p \in 1..(Len(ext_route) - 1) : ext_route[p] \in DOMAIN next_map
    /\ pc = "extracted" =>
         \/ Len(ext_route) > 1 /\ ext_cur = start
         \/ ext_cur \notin DOMAIN next_map
         \/ steps = max_steps

C13_ExtractTerminates == []C13_Bounded /\ <>(pc = "extracted")

\* a cycle that does not pass through the start node was followed until
\* max_steps ran out
C13_Witness ==
    /\ pc = "extracted"
    /\ max_steps = summary_max_steps
    /\ Truncated
    /\ Len(ext_route) = max_steps + 1
    /\ \E p \in 2..steps : ext_route[p] = ext_cur

\* ------------------------------------------------------- the run's output
\* C16: whenever the solver returns no assignment and the heuristic left a
\* customer unserved, the run reports the list of unserved customers, also
\* when the heuristic built no route at all.
C16_UnservedReported ==
    (pc = "end" /\ SolCount = 0 /\ unserved # {}) =>
        \E p \in 1..Len(report) : report[p] = <<"Unserved", SortedUnserved>>

\* C17: for each of the four solver outcomes the run completes without
\* failing: the solver's values are read and routes extracted only when it
\* holds a solution, and when it holds none every heuristic route is
\* reported as the fallback.
C17_OutcomesHandled ==
    /\ pc # "crash"
    /\ pc \in {"extract", "extracted"} => SolCount > 0
    /\ (pc = "end" /\ SolCount = 0) =>
         \A k \in Vehicles :
            routes[k] # <<>> =>
               \E p \in 1..Len(report) : report[p] = <<"Route", k, routes[k]>>

\* ------------------------------------------------ the heuristic's steps
\* the customers on a finished route
CustomersOn(r) == Cardinality({p \in 1..Len(r) : r[p] \in C})

\* the candidate-selection steps taken so far: the customers appended to
\* the finished routes and to the route being built
SelectionSteps ==
    SumOver(Vehicles, [k \in Vehicles |-> CustomersOn(routes[k])], 0)
        + (IF pc = "extend" THEN CustomersOn(route) ELSE 0)

C14_StepsBounded == SelectionSteps <= Len(V) * Cardinality(C)

\* C14: build_greedy_solution terminates, and the candidate-selection steps
\* over all vehicles number at most |V| x |C|.
C14_GreedyTerminates == []C14_StepsBounded /\ <>(pc = "done")

\* the heuristic has ended after as many steps as there are customers,
\* taken by two vehicles
C14_Witness ==
    /\ pc = "done"
    /\ unserved = {}
    /\ \A k \in Vehicles : routes[k] # <<>>
    /\ Len(V) = 2
    /\ SelectionSteps = Cardinality(C)

\* c is a feasible candidate for the vehicle and the route at hand
FeasibleCandidate(c) ==
    /\ c \in unserved
    /\ load + demand[c] <= vehicle_capacities[k_cur]
    /\ time + travel_times[<<cur, c>>] + service[cur]
            + travel_times[<<c, facility>>] + service[c]
            + travel_times[<<facility, depot>>]
         <= max_shift_duration_vehicles[k_cur]

\* a step that appends one customer to the route being built
Appends(c) == pc = "extend" /\ pc' = "extend" /\ route' = Append(route, c)

\* C15: each customer appended to a route is, when chosen, a feasible
\* candidate of minimum direct travel cost from the current node among all
\* feasible candidates.
C15_MinCostFeasibleChoice ==
    [][\A c \in C :
          Appends(c) =>
             /\ FeasibleCandidate(c)
             /\ \A o \in C :
                   FeasibleCandidate(o) =>
                      travel_costs[<<cur, c>>] <= travel_costs[<<cur, o>>]]_vars

\* a second customer was appended after a first one that was strictly
\* cheaper to reach from the depot
C15_Witness ==
    /\ pc = "extend"
    /\ Len(route) = 3
    /\ travel_costs[<<depot, route[2]>>] < travel_costs[<<depot, route[3]>>]

\* ------------------------------------------------------- build_instance
\* C18: building an Instance from an empty vehicle list or an empty
\* customer list is a fatal configuration error: build_instance reports it
\* and returns no Instance.
C18_EmptyListsRejected ==
    (pc # "build" /\ (vehicles = <<>> \/ customers = <<>>)) =>
        built.kind = "ValueError"

\* the call has one depot, one facility and a distance source it knows
ValidCall ==
    /\ Len(depots) = 1
    /\ Len(facilities) = 1
    /\ distance_matrix.given \/ distance_mode \in {"euclidean", "haversine_km"}

\* the node list of a valid call
CallNodes == <<depots[1]>> \o customers \o <<facilities[1]>>

\* the ordered pairs of distinct nodes of the call for which a supplied
\* matrix has no entry
Lacking(matrix) ==
    IF matrix.given
      THEN {a \in (PoolNodes \X PoolNodes) :
               /\ \E p, q \in 1..Len(CallNodes) :
                     a = <<CallNodes[p], CallNodes[q]>>
               /\ a[1] # a[2]
               /\ a \notin matrix.pairs \cup matrix.rows}
      ELSE {}

\* C19: when a supplied distance or time matrix lacks an entry for an
\* ordered pair of distinct nodes, the build fails with an error naming
\* such a pair and returns no Instance, for tuple-keyed and nested matrices.
C19_MissingEntryFails ==
    (pc # "build" /\ ValidCall
        /\ Lacking(distance_matrix) \cup Lacking(time_matrix) # {}) =>
        /\ built.kind = "KeyError"
        /\ built.pair \in Lacking(distance_matrix) \cup Lacking(time_matrix)

\* a nested time matrix lacked a pair that the tuple-keyed distance matrix
\* had, and the build failed on it
C19_Witness ==
    /\ pc = "crash"
    /\ ValidCall
    /\ distance_matrix.given /\ distance_matrix.rows = {}
    /\ Lacking(distance_matrix) = {}
    /\ time_matrix.given /\ time_matrix.pairs = {}
    /\ Lacking(time_matrix) = {<<"C2", "C1">>}
    /\ built.kind = "KeyError"
    /\ built.pair = <<"C2", "C1">>

\* C20: in every Instance returned by build_instance, travel_costs and
\* travel_times have the same key set, exactly the ordered pairs (i, j) of
\* nodes of N = depot + customers + facility with i # j.
C20_CompleteGraph ==
    pc = "built" =>
        LET inst == build_instance(vehicles, customers, depots, facilities,
                                   distance_mode, distance_matrix, time_matrix)
            nodes == {inst.N[p] : p \in 1..Len(inst.N)}
        IN  /\ inst.N = <<depots[1]>> \o customers \o <<facilities[1]>>
            /\ DOMAIN inst.travel_costs = {a \in nodes \X nodes : a[1] # a[2]}
            /\ DOMAIN inst.travel_times = DOMAIN inst.travel_costs
            /\ travel_costs = inst.travel_costs
            /\ travel_times = inst.travel_times

\* an Instance with two customers was built from a nested distance matrix
C20_Witness ==
    /\ pc = "built"
    /\ built.kind = "Instance"
    /\ Len(customers) = 2
    /\ distance_matrix.given /\ distance_matrix.pairs = {}
    /\ Cardinality(DOMAIN travel_costs) = 12

\* ------------------------------------------------- the heuristic's result
\* the places where customer c stands on a finished route or on the route
\* being built
PlacesOf(c) ==
    {kp \in Vehicles \X (1..(Len(NodeList) + 2)) :
        \/ kp[2] <= Len(routes[kp[1]]) /\ routes[kp[1]][kp[2]] = c
        \/ /\ pc = "extend"
           /\ kp[1] = k_cur
           /\ kp[2] <= Len(route) /\ route[kp[2]] = c}

C22_Partitioned ==
    /\ \A k \in Vehicles : Len(routes[k]) <= Len(NodeList) + 2
    /\ pc = "extend" => Len(route) <= Len(NodeList) + 2
    /\ \A c \in C :
          IF c \in unserved THEN PlacesOf(c) = {}
          ELSE Cardinality(PlacesOf(c)) = 1

\* C22: at every step of build_greedy_solution and in its result each
\* customer is either unserved or stands exactly once on exactly one route,
\* and the unserved set only shrinks as the vehicle loop advances.
C22_CustomersPartitioned ==
    []C22_Partitioned /\ [][unserved' \subseteq unserved]_vars

\* the result has one customer on the first vehicle's route, one on the
\* second's, and the second vehicle started from what the first had left
C22_Witness ==
    /\ pc = "done"
    /\ Len(V) = 2
    /\ unserved = {}
    /\ \A k \in Vehicles : CustomersOn(routes[k]) = 1
    /\ routes[V[1]][2] # routes[V[2]][2]

\* the route of k up to its last customer, [depot] when k is unused
OpenRoute(k) ==
    IF routes[k] = <<>> THEN <<depot>>
    ELSE SubSeq(routes[k], 1, Len(routes[k]) - 2)

\* k's route with c appended after its last customer stays within k's
\* capacity and, closed by facility and depot, within k's shift
CouldTake(k, c) ==
    /\ RouteDemand(OpenRoute(k)) + demand[c] <= vehicle_capacities[k]
    /\ RouteArcTime(OpenRoute(k) \o <<c, facility, depot>>)
          <= max_shift_duration_vehicles[k]

\* C23: if the heuristic returns a non-empty unserved list, then for every
\* vehicle k and every unserved customer c, appending c at the end of k's
\* route would exceed k's capacity or k's maximum shift duration.
C23_ResultMaximal ==
    (pc = "done" /\ unserved # {}) =>
        \A k \in Vehicles : \A c \in unserved : ~CouldTake(k, c)

\* one customer is left that the first vehicle has no capacity for and
\* the second, which stayed unused, has capacity but no time for
C23_Witness ==
    /\ pc = "done"
    /\ Len(V) = 2
    /\ Cardinality(unserved) = 1
    /\ routes[V[1]] # <<>>
    /\ routes[V[2]] = <<>>
    /\ \E c \in unserved :
          /\ RouteDemand(OpenRoute(V[1])) + demand[c] > vehicle_capacities[V[1]]
          /\ demand[c] <= vehicle_capacities[V[2]]

\* ------------------------------------------------------------- rounding
\* z is num/den rounded to the nearest integer, a tie to the even one
IsRounding(z, num, den) ==
    /\ 2 * Abs(num - z * den) <= den
    /\ 2 * Abs(num - z * den) = den => z % 2 = 0

\* w is max(1, round(raw * scale)) for a raw value of raw/PosDen
IsArcWeight(w, raw, scale) ==
    \E z \in (0 - Abs(raw * scale) - 1)..(Abs(raw * scale) + 1) :
        /\ IsRounding(z, raw * scale, PosDen)
        /\ w = (IF z >= 1 THEN z ELSE 1)

\* C21: every travel_costs and travel_times value produced by
\* build_instance is an integer >= 1 equal to max(1, round(raw * scale)),
\* also when the raw distance or duration is zero, below one unit or
\* negative; a supplied duration is used directly (scale 1).
C21_RoundedWeights ==
    pc = "built" =>
        \A a \in DOMAIN travel_costs :
            LET dist == SourceDistance(distance_mode, distance_matrix, a[1], a[2])
            IN  /\ travel_costs[a] \in Nat /\ travel_costs[a] >= 1
                /\ travel_times[a] \in Nat /\ travel_times[a] >= 1
                /\ IsArcWeight(travel_costs[a], dist, cost_per_unit)
                /\ IF time_matrix.given
                     THEN IsArcWeight(travel_times[a], time_matrix.raw[a], 1)
                     ELSE IsArcWeight(travel_times[a], dist, time_per_unit)

\* an Instance was built from a distance matrix with a negative entry and
\* an entry of half a unit and from a time matrix with a zero entry, and
\* all three arcs got the weight 1
C21_Witness ==
    /\ pc = "built"
    /\ distance_matrix.given
    /\ time_matrix.given
    /\ \E a, b, c \in DOMAIN travel_costs :
          /\ distance_matrix.raw[a] < 0 /\ travel_costs[a] = 1
          /\ distance_matrix.raw[b] = 1 /\ travel_costs[b] = 1
          /\ time_matrix.raw[c] = 0 /\ travel_times[c] = 1
====
